---- MODULE Spec2Model ----
(***************************************************************************)
(* Model of src/src/plugin.cpp: the request registry (requests,            *)
(* lastHandle, requestMutex), CreateRequest with its detached worker and   *)
(* the delivery task it posts, Destroy, the kPostLoadGame reset, and the   *)
(* JSON accessors.  Every lock_guard critical section is one atomic        *)
(* action; the steps of CreateRequest, of the worker thread and of the     *)
(* delivery task are separate actions that interleave freely.              *)
(***************************************************************************)
EXTENDS Integers, Sequences, FiniteSets, TLC

(* ------------------------------ bounds --------------------------------- *)

\* number of CreateRequest calls explored (caps ++lastHandle)
MaxHandles == 2

\* HTTP status that selects the success branch (plugin.cpp:77)
StatusOK == 200

Handles == 1..MaxHandles

(* --------------------------- host environment -------------------------- *)

\* Calling scripts: the type name of the caller's stack frame
\* (frame->owningObjectType->GetName()) and the VMHandle of the form passed.
CallerA == [script |-> "ScriptA", vmhandle |-> 101]
CallerB == [script |-> "ScriptB", vmhandle |-> 102]

Callers == { CallerA, CallerB }

Scripts == { c.script : c \in Callers }

\* vm->FindBoundObject(handle, scriptName): the objects of the host that have
\* a script of that type attached.  Only the callers' forms are bound; no
\* object has VMHandle 0 or a script with the empty type name.
FindBoundObject(vmhandle, scriptName) ==
    \E c \in Callers : c.vmhandle = vmhandle /\ c.script = scriptName

\* message types handed to OnMessage
MessageTypes == { "kPostLoadGame", "kDataLoaded" }

(* ------------------- texts: sequences of characters -------------------- *)

\* the double quote character
Q == "\""

DigitChars == <<"0", "1", "2", "3", "4", "5", "6", "7", "8", "9">>

IsDigit(c) == \E d \in 1..Len(DigitChars) : DigitChars[d] = c

DigitVal(c) == (CHOOSE d \in 1..Len(DigitChars) : DigitChars[d] = c) - 1

CharAt(s, i) == IF i >= 1 /\ i <= Len(s) THEN s[i] ELSE "EOF"

(* ---------------- JSON::parse (nlohmann::json, a subset) --------------- *)
(* Values: null, true/false, integers, decimals, strings without escapes,  *)
(* arrays and objects; blanks between tokens are skipped.  A decimal is    *)
(* kept as the pair <<numerator, denominator>>.  A text that is not one    *)
(* JSON value followed by the end of input makes parse throw.              *)

JNull == [t |-> "null"]
JBool(b) == [t |-> "bool", v |-> b]
JInt(n) == [t |-> "int", v |-> n]
JFloat(n, d) == [t |-> "float", v |-> <<n, d>>]
JString(s) == [t |-> "string", v |-> s]
JArray(elems) == [t |-> "array", v |-> elems]
JObject(members) == [t |-> "object", v |-> members]

ParseFail == [ok |-> FALSE]
ParseOk(val, next) == [ok |-> TRUE, val |-> val, next |-> next]

RECURSIVE SkipWs(_, _)
SkipWs(s, i) == IF CharAt(s, i) = " " THEN SkipWs(s, i + 1) ELSE i

\* literal_text after the first character matched: true, false, null
ParseLiteral(s, i, word, val) ==
    IF i + Len(word) - 1 <= Len(s) /\ SubSeq(s, i, i + Len(word) - 1) = word
    THEN ParseOk(val, i + Len(word))
    ELSE ParseFail

\* index of the closing quote of the string that opens at i, 0 if none
RECURSIVE FindQuote(_, _)
FindQuote(s, j) ==
    IF j > Len(s) THEN 0
    ELSE IF s[j] = Q THEN j
    ELSE FindQuote(s, j + 1)

ParseString(s, i) ==
    LET j == FindQuote(s, i + 1)
    IN  IF j = 0 THEN ParseFail
        ELSE ParseOk(JString(SubSeq(s, i + 1, j - 1)), j + 1)

\* the run of digits starting at i: value, scale 10^digits, next position
RECURSIVE ScanDigits(_, _, _, _)
ScanDigits(s, i, acc, scale) ==
    IF IsDigit(CharAt(s, i))
    THEN ScanDigits(s, i + 1, acc * 10 + DigitVal(s[i]), scale * 10)
    ELSE [val |-> acc, scale |-> scale, next |-> i]

\* scan_number: [-] (0 | [1-9][0-9]*) [. [0-9]+]
ParseNumber(s, i) ==
    LET neg   == CharAt(s, i) = "-"
        start == IF neg THEN i + 1 ELSE i
        sign  == IF neg THEN -1 ELSE 1
        ip    == IF CharAt(s, start) = "0"
                 THEN [val |-> 0, scale |-> 10, next |-> start + 1]
                 ELSE ScanDigits(s, start, 0, 1)
        fp    == ScanDigits(s, ip.next + 1, 0, 1)
    IN  IF ~IsDigit(CharAt(s, start)) THEN ParseFail
        ELSE IF CharAt(s, ip.next) # "." THEN ParseOk(JInt(sign * ip.val), ip.next)
        ELSE IF fp.next = ip.next + 1 THEN ParseFail
        ELSE ParseOk(JFloat(sign * (ip.val * fp.scale + fp.val), fp.scale), fp.next)

RECURSIVE ParseValue(_, _), ParseElements(_, _, _), ParseMembers(_, _, _)

\* the elements of an array after "[" or ","; i is at the next element
ParseElements(s, i, acc) ==
    LET e == ParseValue(s, SkipWs(s, i))
        k == SkipWs(s, e.next)
    IN  IF ~e.ok THEN ParseFail
        ELSE IF CharAt(s, k) = "," THEN ParseElements(s, k + 1, Append(acc, e.val))
        ELSE IF CharAt(s, k) = "]" THEN ParseOk(JArray(Append(acc, e.val)), k + 1)
        ELSE ParseFail

\* the members of an object after "{" or ","; i is at the next key
ParseMembers(s, i, acc) ==
    LET ki  == SkipWs(s, i)
        key == ParseString(s, ki)
        ci  == SkipWs(s, key.next)
        e   == ParseValue(s, SkipWs(s, ci + 1))
        k   == SkipWs(s, e.next)
        m   == [k |-> key.val.v, v |-> e.val]
    IN  IF CharAt(s, ki) # Q \/ ~key.ok THEN ParseFail
        ELSE IF CharAt(s, ci) # ":" THEN ParseFail
        ELSE IF ~e.ok THEN ParseFail
        ELSE IF CharAt(s, k) = "," THEN ParseMembers(s, k + 1, Append(acc, m))
        ELSE IF CharAt(s, k) = "}" THEN ParseOk(JObject(Append(acc, m)), k + 1)
        ELSE ParseFail

ParseValue(s, i) ==
    LET c == CharAt(s, i)
    IN  IF c = "{" THEN
            IF CharAt(s, SkipWs(s, i + 1)) = "}"
            THEN ParseOk(JObject(<<>>), SkipWs(s, i + 1) + 1)
            ELSE ParseMembers(s, i + 1, <<>>)
        ELSE IF c = "[" THEN
            IF CharAt(s, SkipWs(s, i + 1)) = "]"
            THEN ParseOk(JArray(<<>>), SkipWs(s, i + 1) + 1)
            ELSE ParseElements(s, i + 1, <<>>)
        ELSE IF c = Q THEN ParseString(s, i)
        ELSE IF c = "t" THEN ParseLiteral(s, i, <<"t", "r", "u", "e">>, JBool(TRUE))
        ELSE IF c = "f" THEN ParseLiteral(s, i, <<"f", "a", "l", "s", "e">>, JBool(FALSE))
        ELSE IF c = "n" THEN ParseLiteral(s, i, <<"n", "u", "l", "l">>, JNull)
        ELSE IF c = "-" \/ IsDigit(c) THEN ParseNumber(s, i)
        ELSE ParseFail

\* JSON::parse(text): [ok |-> TRUE, val |-> document], or [ok |-> FALSE] when
\* it throws parse_error (strict: nothing but blanks may follow the value)
JSONParse(text) ==
    LET r == ParseValue(text, SkipWs(text, 1))
    IN  IF r.ok /\ SkipWs(text, r.next) = Len(text) + 1
        THEN [ok |-> TRUE, val |-> r.val]
        ELSE ParseFail

(* ------------- nlohmann::json::json_pointer and get<T>() --------------- *)

\* the reference token that starts at i: up to the next "/" or the end
RECURSIVE TokenEnd(_, _)
TokenEnd(path, i) ==
    IF i > Len(path) \/ path[i] = "/" THEN i ELSE TokenEnd(path, i + 1)

\* every "~" of a token must be followed by "0" or "1"
TokenWellEscaped(tok) ==
    \A i \in 1..Len(tok) :
        tok[i] = "~" => CharAt(tok, i + 1) \in {"0", "1"}

\* unescape: "~1" becomes "/", "~0" becomes "~"
RECURSIVE Unescape(_)
Unescape(tok) ==
    IF tok = <<>> THEN <<>>
    ELSE IF tok[1] = "~" /\ CharAt(tok, 2) = "1" THEN <<"/">> \o Unescape(SubSeq(tok, 3, Len(tok)))
    ELSE IF tok[1] = "~" /\ CharAt(tok, 2) = "0" THEN <<"~">> \o Unescape(SubSeq(tok, 3, Len(tok)))
    ELSE <<tok[1]>> \o Unescape(Tail(tok))

\* json_pointer::split from position start (just after a "/")
RECURSIVE SplitFrom(_, _, _)
SplitFrom(path, start, acc) ==
    LET e   == TokenEnd(path, start)
        tok == SubSeq(path, start, e - 1)
    IN  IF ~TokenWellEscaped(tok) THEN [ok |-> FALSE]
        ELSE IF e > Len(path) THEN [ok |-> TRUE, tokens |-> Append(acc, Unescape(tok))]
        ELSE SplitFrom(path, e + 1, Append(acc, Unescape(tok)))

\* json_pointer ptr(a_path): the reference tokens, or [ok |-> FALSE] when the
\* constructor throws (a non-empty path must begin with "/")
JSONPointer(path) ==
    IF path = <<>> THEN [ok |-> TRUE, tokens |-> <<>>]
    ELSE IF path[1] # "/" THEN [ok |-> FALSE]
    ELSE SplitFrom(path, 2, <<>>)

\* object lookup: the last member with that key (a later duplicate replaces
\* an earlier one while parsing), 0 if the key is absent
MemberIndex(members, key) ==
    LET hits == { i \in 1..Len(members) : members[i].k = key }
    IN  IF hits = {} THEN 0 ELSE CHOOSE i \in hits : \A j \in hits : j <= i

\* a reference token that json_pointer accepts as an array index:
\* "0", or digits that do not start with "0"
IsArrayIndex(tok) ==
    /\ Len(tok) >= 1
    /\ \A i \in 1..Len(tok) : IsDigit(tok[i])
    /\ (Len(tok) > 1 => tok[1] # "0")

ArrayIndex(tok) == ScanDigits(tok, 1, 0, 1).val

\* json.contains(ptr) followed by json[ptr]: the value the tokens lead to,
\* [found |-> FALSE] when contains is false or array_index throws
RECURSIVE Resolve(_, _)
Resolve(doc, tokens) ==
    IF tokens = <<>> THEN [found |-> TRUE, val |-> doc]
    ELSE IF doc.t = "object" THEN
        LET i == MemberIndex(doc.v, Head(tokens))
        IN  IF i = 0 THEN [found |-> FALSE]
            ELSE Resolve(doc.v[i].v, Tail(tokens))
    ELSE IF doc.t = "array" THEN
        IF ~IsArrayIndex(Head(tokens)) THEN [found |-> FALSE]
        ELSE IF ArrayIndex(Head(tokens)) >= Len(doc.v) THEN [found |-> FALSE]
        ELSE Resolve(doc.v[ArrayIndex(Head(tokens)) + 1], Tail(tokens))
    ELSE [found |-> FALSE]

\* the types T of GetJSONValue<T>
ValueTypes == {"string", "int", "float", "bool"}

\* truncation toward zero of num/den (den > 0): static_cast<int>(double)
Truncate(num, den) == IF num >= 0 THEN num \div den ELSE -((-num) \div den)

\* basic_json::get<T>(): [ok |-> TRUE, val |-> converted] or [ok |-> FALSE]
\* when from_json throws type_error.  A string converts from a string only,
\* a bool from a boolean only; int and float convert from any number and
\* from a boolean.  A float result is the pair <<numerator, denominator>>.
GetAs(val, T) ==
    IF T = "string" THEN
        IF val.t = "string" THEN [ok |-> TRUE, val |-> val.v] ELSE [ok |-> FALSE]
    ELSE IF T = "bool" THEN
        IF val.t = "bool" THEN [ok |-> TRUE, val |-> val.v] ELSE [ok |-> FALSE]
    ELSE IF T = "int" THEN
        IF val.t = "int" THEN [ok |-> TRUE, val |-> val.v]
        ELSE IF val.t = "float" THEN [ok |-> TRUE, val |-> Truncate(val.v[1], val.v[2])]
        ELSE IF val.t = "bool" THEN [ok |-> TRUE, val |-> IF val.v THEN 1 ELSE 0]
        ELSE [ok |-> FALSE]
    ELSE
        IF val.t = "int" THEN [ok |-> TRUE, val |-> <<val.v, 1>>]
        ELSE IF val.t = "float" THEN [ok |-> TRUE, val |-> val.v]
        ELSE IF val.t = "bool" THEN [ok |-> TRUE, val |-> IF val.v THEN <<1, 1>> ELSE <<0, 1>>]
        ELSE [ok |-> FALSE]

(* ------------------------- network responses --------------------------- *)

\* {"a":{"b":42}}
BodyAB ==
    <<"{", Q, "a", Q, ":", "{", Q, "b", Q, ":", "4", "2", "}", "}">>

\* {"s":"hi","t":true,"f":1.5,"l":[7,-8]}
BodyMixed ==
    <<"{", Q, "s", Q, ":", Q, "h", "i", Q, ",",
      Q, "t", Q, ":", "t", "r", "u", "e", ",",
      Q, "f", Q, ":", "1", ".", "5", ",",
      Q, "l", Q, ":", "[", "7", ",", "-", "8", "]", "}">>

\* {"a":   (cut short: not JSON)
BodyCut == <<"{", Q, "a", Q, ":">>

\* an error page
BodyError == <<"n", "o">>

\* what cpr::Get can return: a 200 with a JSON or a non-JSON body, an HTTP
\* error status, and status 0 with an empty body (transport error, timeout)
Responses ==
    { [status_code |-> StatusOK, text |-> BodyAB],
      [status_code |-> StatusOK, text |-> BodyCut],
      [status_code |-> 404, text |-> BodyError],
      [status_code |-> 0, text |-> <<>>] }

\* the responses of the accessor scenarios: more kinds of document
JSONResponses ==
    Responses \cup { [status_code |-> StatusOK, text |-> BodyMixed] }

NoResponse == [status_code |-> -1, text |-> <<>>]

(* ------------------------------- state --------------------------------- *)

VARIABLES
    requests,       \* std::map<int, Request>: handle -> Request
    lastHandle,     \* int lastHandle
    requestMutex,   \* std::mutex requestMutex: the critical section that holds it
    cells,          \* the atomic_bool cells make_shared has created: id -> value
    pc,             \* per CreateRequest call (named by the handle it got): position
    isJSON,         \* per call: the isJSON argument, captured by the worker
    canceledFlag,   \* per call: the cell the local canceledFlag points to (0: none)
    response,       \* per call: what cpr::Get returned
    a_paramKeys,    \* per call: the a_paramKeys argument, captured by the worker
    a_paramValues,  \* per call: the a_paramValues argument, captured by the worker
    params,         \* per call: the worker's cpr::Parameters, passed to cpr::Get
    papyrusCalls,   \* the CallPapyrus invocations so far, in order
    handed,         \* history: the handles CreateHandle has returned, in order
    erased,         \* history: handles erased by Destroy or by the reset
    cancelledEarly, \* history: handles their owner destroyed before cpr::Get returned
    denied,         \* history: handles still in the registry that a non-owner tried to destroy
    resetPending,   \* history: handles whose worker was pending at a reset
    resetCancelled  \* history: created handles that a reset erased

\* everything but the mutex
data == <<requests, lastHandle, cells, pc, isJSON, canceledFlag, response,
          a_paramKeys, a_paramValues, params, papyrusCalls, handed, erased,
          cancelledEarly, denied, resetPending, resetCancelled>>

vars == <<data, requestMutex>>

registry == <<requests, lastHandle, cells>>

history == <<handed, erased, cancelledEarly, denied, resetPending, resetCancelled>>

\* what the worker lambda holds of the parameter lists
workerParams == <<a_paramKeys, a_paramValues, params>>

\* the atomic_bool of the Request that CreateHandle constructs for handle h,
\* and of the Request that requests[h] default-constructs when h is absent
AllocCell(h) == 2 * h - 1
\* requests[h] handing out the cell CreateHandle made for h, set back to false
FetchCell_Reused(h) == 2 * h - 1

FetchCell(h) == 2 * h

\* Request{scriptName, vmhandle}: canceled is a fresh cell holding false
\* (set in the action that constructs it), json is null, jsonValidated false
NewRequest(scriptName, vmhandle, cell) ==
    [ scriptName    |-> scriptName,
      vmhandle      |-> vmhandle,
      canceled      |-> cell,
      json          |-> JNull,
      jsonValidated |-> FALSE ]

\* Request{}: what std::map::operator[] inserts (value-initialized)
DefaultRequest(cell) == NewRequest("", 0, cell)

\* positions of a call before cpr::Get has returned
BeforeResponse == {"allocated", "fetched", "net"}

\* positions of a call in which its worker or its posted task is pending
WorkerPending == {"net", "responded", "posted", "locking"}

\* positions of a call that has fetched its flag (its second critical section)
Created == {"fetched", "net", "responded", "posted", "locking", "done"}

\* a critical section: the function that has locked requestMutex, with the
\* handle, the calling script and the isJSON argument it works on
Section(op, h, c, json) == [op |-> op, h |-> h, c |-> c, json |-> json]

NoCaller == [script |-> "", vmhandle |-> 0]

\* requestMutex is not locked
Free == Section("none", 0, NoCaller, FALSE)

Init ==
    /\ requests = <<>>
    /\ lastHandle = 0
    /\ requestMutex = Free
    /\ cells = <<>>
    /\ pc = [h \in Handles |-> "idle"]
    /\ isJSON = [h \in Handles |-> FALSE]
    /\ canceledFlag = [h \in Handles |-> 0]
    /\ response = [h \in Handles |-> NoResponse]
    /\ a_paramKeys = [h \in Handles |-> <<>>]
    /\ a_paramValues = [h \in Handles |-> <<>>]
    /\ params = [h \in Handles |-> <<>>]
    /\ papyrusCalls = <<>>
    /\ handed = <<>>
    /\ erased = {}
    /\ cancelledEarly = {}
    /\ denied = {}
    /\ resetPending = {}
    /\ resetCancelled = {}

(* ----------------------------- operations ------------------------------ *)

\* CreateHandle: under the lock, requests.emplace(++lastHandle, Request{...})
CreateHandle(c) ==
    LET h == lastHandle + 1
    IN  /\ lastHandle' = h
        /\ cells' = (AllocCell(h) :> FALSE) @@ cells
        /\ requests' = IF h \in DOMAIN requests THEN requests
                       ELSE (h :> NewRequest(c.script, c.vmhandle, AllocCell(h))) @@ requests

\* CreateRequest up to the return of CreateHandle (line 53)
CreateRequest(c, keys, values, json) ==
    /\ lastHandle < MaxHandles
    /\ CreateHandle(c)
    /\ pc' = [pc EXCEPT ![lastHandle + 1] = "allocated"]
    /\ isJSON' = [isJSON EXCEPT ![lastHandle + 1] = json]
    /\ a_paramKeys' = [a_paramKeys EXCEPT ![lastHandle + 1] = keys]
    /\ a_paramValues' = [a_paramValues EXCEPT ![lastHandle + 1] = values]
    /\ handed' = Append(handed, lastHandle')
    /\ UNCHANGED <<canceledFlag, response, params, papyrusCalls, erased,
                   cancelledEarly, denied, resetPending, resetCancelled>>

LoadURL(c, keys, values) == CreateRequest(c, keys, values, FALSE)

LoadJSON(c, keys, values) == CreateRequest(c, keys, values, TRUE)

\* lines 55-58: under the lock, canceledFlag = requests[handle].canceled;
\* operator[] inserts a default Request when the handle is not a key
FetchFlag(h) ==
    /\ pc[h] = "allocated"
    /\ IF h \in DOMAIN requests
       THEN /\ canceledFlag' = [canceledFlag EXCEPT ![h] = requests[h].canceled]
            /\ UNCHANGED <<requests, cells>>
       ELSE /\ requests' = (h :> DefaultRequest(FetchCell(h))) @@ requests
            /\ cells' = (FetchCell(h) :> FALSE) @@ cells
            /\ canceledFlag' = [canceledFlag EXCEPT ![h] = FetchCell(h)]
    /\ pc' = [pc EXCEPT ![h] = "fetched"]
    /\ UNCHANGED <<lastHandle, isJSON, response, workerParams, papyrusCalls, history>>

\* the pairs the key and value lists give: the one at the end of the longer
\* list has no partner and is left out
Parameters_Pairwise(keys, values) ==
    IF keys # <<>>
    THEN [i \in 1..(IF Len(keys) <= Len(values) THEN Len(keys) ELSE Len(values)) |->
             [key |-> keys[i], value |-> values[i]]]
    ELSE <<>>

\* lines 61-66: the cpr::Parameters the worker builds from the two lists
Parameters(keys, values) ==
    IF keys # <<>> /\ Len(keys) = Len(values)
    THEN [i \in 1..Len(keys) |-> [key |-> keys[i], value |-> values[i]]]
    ELSE <<>>

\* lines 60-67, 93-95: std::jthread(...).detach(); return handle; the worker
\* builds params and calls cpr::Get
SpawnWorker(h) ==
    /\ pc[h] = "fetched"
    /\ pc' = [pc EXCEPT ![h] = "net"]
    /\ params' = [params EXCEPT ![h] = Parameters(a_paramKeys[h], a_paramValues[h])]
    /\ UNCHANGED <<registry, isJSON, canceledFlag, response, a_paramKeys,
                   a_paramValues, papyrusCalls, history>>

\* line 67: cpr::Get returns on the worker thread
NetworkReturn(h, r) ==
    /\ pc[h] = "net"
    /\ response' = [response EXCEPT ![h] = r]
    /\ pc' = [pc EXCEPT ![h] = "responded"]
    /\ UNCHANGED <<registry, isJSON, canceledFlag, workerParams, papyrusCalls, history>>

\* the worker thread or the posted task ends: its flag and response are released
Finish(h) ==
    /\ pc' = [pc EXCEPT ![h] = "done"]
    /\ canceledFlag' = [canceledFlag EXCEPT ![h] = 0]
    /\ response' = [response EXCEPT ![h] = NoResponse]

\* lines 68-70: if (canceledFlag->load()) return; else AddTask(...); either
\* way the worker lambda ends, and its parameter lists and params with it
WorkerCheck(h) ==
    /\ pc[h] = "responded"
    /\ IF cells[canceledFlag[h]]
       THEN Finish(h)
       ELSE /\ pc' = [pc EXCEPT ![h] = "posted"]
            /\ UNCHANGED <<canceledFlag, response>>
    /\ a_paramKeys' = [a_paramKeys EXCEPT ![h] = <<>>]
    /\ a_paramValues' = [a_paramValues EXCEPT ![h] = <<>>]
    /\ params' = [params EXCEPT ![h] = <<>>]
    /\ UNCHANGED <<registry, isJSON, papyrusCalls, history>>

\* line 71, in the posted task: if (canceledFlag->load()) return;
TaskCheck(h) ==
    /\ pc[h] = "posted"
    /\ IF cells[canceledFlag[h]]
       THEN Finish(h)
       ELSE /\ pc' = [pc EXCEPT ![h] = "locking"]
            /\ UNCHANGED <<canceledFlag, response>>
    /\ UNCHANGED <<registry, isJSON, workerParams, papyrusCalls, history>>

\* m with key h removed: requests.erase(it)
Erase(m, h) == [k \in DOMAIN m \ {h} |-> m[k]]

\* CallPapyrus(vmhandle, scriptName, method, handle, arg): the call is
\* dispatched to the script only when FindBoundObject finds the object
CallPapyrus(vmhandle, scriptName, methodName, handle, arg) ==
    Append(papyrusCalls,
           [ methodName |-> methodName,
             handle     |-> handle,
             arg        |-> arg,
             vmhandle   |-> vmhandle,
             scriptName |-> scriptName,
             dispatched |-> FindBoundObject(vmhandle, scriptName) ])

\* the delivery parsing every 200 body, whatever isJSON is
Delivered_AnyMode(req, r, json) ==
    IF r.status_code = StatusOK /\ JSONParse(r.text).ok
    THEN [req EXCEPT !.json = JSONParse(r.text).val, !.jsonValidated = TRUE]
    ELSE req

\* the delivery setting jsonValidated although JSON::parse has thrown
Delivered_ValidatedUnchecked(req, r, json) ==
    IF r.status_code = StatusOK /\ json
    THEN IF JSONParse(r.text).ok
         THEN [req EXCEPT !.json = JSONParse(r.text).val, !.jsonValidated = TRUE]
         ELSE [req EXCEPT !.jsonValidated = TRUE]
    ELSE req

\* lines 77-86: what the delivery stores in the Request
Delivered(req, r, json) ==
    IF r.status_code = StatusOK /\ json /\ JSONParse(r.text).ok
    THEN [req EXCEPT !.json = JSONParse(r.text).val, !.jsonValidated = TRUE]
    ELSE req

\* the notification chosen as if every HTTP response were a success
Notify_AnyResponse(req, h, r) ==
    IF r.status_code # 0
    THEN CallPapyrus(req.vmhandle, req.scriptName, "OnRequestSuccess", h, r.text)
    ELSE CallPapyrus(req.vmhandle, req.scriptName, "OnRequestFail", h, r.status_code)

\* the notification with the else at line 88 left out: OnRequestFail follows
\* OnRequestSuccess
Notify_Both(req, h, r) ==
    IF r.status_code = StatusOK
    THEN Append(CallPapyrus(req.vmhandle, req.scriptName, "OnRequestSuccess", h, r.text),
                [ methodName |-> "OnRequestFail",
                  handle     |-> h,
                  arg        |-> r.status_code,
                  vmhandle   |-> req.vmhandle,
                  scriptName |-> req.scriptName,
                  dispatched |-> FindBoundObject(req.vmhandle, req.scriptName) ])
    ELSE CallPapyrus(req.vmhandle, req.scriptName, "OnRequestFail", h, r.status_code)

\* lines 87-90: the notification the delivery invokes
Notify(req, h, r) ==
    IF r.status_code = StatusOK
    THEN CallPapyrus(req.vmhandle, req.scriptName, "OnRequestSuccess", h, r.text)
    ELSE CallPapyrus(req.vmhandle, req.scriptName, "OnRequestFail", h, r.status_code)

\* the posted task erasing the Request once it has notified
TaskDeliver_Erase(h) ==
    /\ pc[h] = "locking"
    /\ IF h \in DOMAIN requests
       THEN /\ requests' = Erase(requests, h)
            /\ papyrusCalls' = Notify(requests[h], h, response[h])
       ELSE UNCHANGED <<requests, papyrusCalls>>
    /\ Finish(h)
    /\ UNCHANGED <<lastHandle, cells, isJSON, workerParams, history>>

\* the posted task with requests[handle] in place of find: no end() test
TaskDeliver_NoFind(h) ==
    /\ pc[h] = "locking"
    /\ LET req == IF h \in DOMAIN requests THEN requests[h]
                  ELSE DefaultRequest(FetchCell(h))
       IN  /\ requests' = (h :> Delivered(req, response[h], isJSON[h])) @@ requests
           /\ papyrusCalls' = Notify(req, h, response[h])
    /\ Finish(h)
    /\ UNCHANGED <<lastHandle, cells, isJSON, workerParams, history>>

\* the posted task with the else branch at lines 88-90 left out: a response
\* other than 200 is dropped
TaskDeliver_SuccessOnly(h) ==
    /\ pc[h] = "locking"
    /\ IF h \in DOMAIN requests /\ response[h].status_code = StatusOK
       THEN /\ requests' = [requests EXCEPT ![h] = Delivered(requests[h], response[h], isJSON[h])]
            /\ papyrusCalls' = Notify(requests[h], h, response[h])
       ELSE UNCHANGED <<requests, papyrusCalls>>
    /\ Finish(h)
    /\ UNCHANGED <<lastHandle, cells, isJSON, workerParams, history>>

\* lines 73-91: the rest of the posted task, under the lock
TaskDeliver(h) ==
    /\ pc[h] = "locking"
    /\ IF h \in DOMAIN requests
       THEN /\ requests' = [requests EXCEPT ![h] = Delivered(requests[h], response[h], isJSON[h])]
            /\ papyrusCalls' = Notify(requests[h], h, response[h])
       ELSE UNCHANGED <<requests, papyrusCalls>>
    /\ Finish(h)
    /\ UNCHANGED <<lastHandle, cells, isJSON, workerParams, history>>

\* Destroy with the store and the erase left out
Destroy_Forget(h, who) ==
    /\ IF h \in DOMAIN requests /\ who = requests[h].scriptName
       THEN /\ cancelledEarly' = IF pc[h] \in BeforeResponse
                                 THEN cancelledEarly \cup {h} ELSE cancelledEarly
            /\ UNCHANGED <<requests, cells, erased, denied>>
       ELSE /\ denied' = IF h \in DOMAIN requests THEN denied \cup {h} ELSE denied
            /\ UNCHANGED <<requests, cells, erased, cancelledEarly>>
    /\ UNCHANGED <<lastHandle, pc, isJSON, canceledFlag, response, workerParams, papyrusCalls,
                   handed, resetPending, resetCancelled>>

\* Destroy without the comparison of the caller's type with scriptName
Destroy_AnyOwner(h, who) ==
    /\ IF h \in DOMAIN requests
       THEN /\ cells' = [cells EXCEPT ![requests[h].canceled] = TRUE]
            /\ requests' = Erase(requests, h)
            /\ erased' = erased \cup {h}
            /\ cancelledEarly' = IF pc[h] \in BeforeResponse /\ who = requests[h].scriptName
                                 THEN cancelledEarly \cup {h} ELSE cancelledEarly
            /\ denied' = IF who = requests[h].scriptName
                         THEN denied \ {h} ELSE denied \cup {h}
       ELSE UNCHANGED <<requests, cells, erased, cancelledEarly, denied>>
    /\ UNCHANGED <<lastHandle, pc, isJSON, canceledFlag, response, workerParams, papyrusCalls,
                   handed, resetPending, resetCancelled>>

\* Destroy looking the handle up with requests[a_handle] in place of find:
\* an absent handle gets a default Request, which no script owns
Destroy_Subscript(h, who) ==
    /\ IF h \in DOMAIN requests /\ who = requests[h].scriptName
       THEN /\ cells' = [cells EXCEPT ![requests[h].canceled] = TRUE]
            /\ requests' = Erase(requests, h)
            /\ erased' = erased \cup {h}
            /\ cancelledEarly' = IF pc[h] \in BeforeResponse
                                 THEN cancelledEarly \cup {h} ELSE cancelledEarly
            /\ denied' = denied \ {h}
       ELSE /\ denied' = denied \cup {h}
            /\ requests' = IF h \in DOMAIN requests THEN requests
                           ELSE (h :> DefaultRequest(FetchCell(h))) @@ requests
            /\ cells' = IF h \in DOMAIN requests THEN cells
                        ELSE (FetchCell(h) :> FALSE) @@ cells
            /\ UNCHANGED <<erased, cancelledEarly>>
    /\ UNCHANGED <<lastHandle, pc, isJSON, canceledFlag, response, workerParams, papyrusCalls,
                   handed, resetPending, resetCancelled>>

\* Destroy that stores the flag and leaves the Request in the registry
Destroy_StoreOnly(h, who) ==
    /\ IF h \in DOMAIN requests /\ who = requests[h].scriptName
       THEN /\ cells' = [cells EXCEPT ![requests[h].canceled] = TRUE]
            /\ cancelledEarly' = IF pc[h] \in BeforeResponse
                                 THEN cancelledEarly \cup {h} ELSE cancelledEarly
            /\ denied' = denied \ {h}
            /\ UNCHANGED <<requests, erased>>
       ELSE /\ denied' = IF h \in DOMAIN requests THEN denied \cup {h} ELSE denied
            /\ UNCHANGED <<requests, cells, erased, cancelledEarly>>
    /\ UNCHANGED <<lastHandle, pc, isJSON, canceledFlag, response, workerParams, papyrusCalls,
                   handed, resetPending, resetCancelled>>

\* Destroy(a_handle) called from a script of type who
Destroy(h, who) ==
    /\ IF h \in DOMAIN requests /\ who = requests[h].scriptName
       THEN /\ cells' = [cells EXCEPT ![requests[h].canceled] = TRUE]
            /\ requests' = Erase(requests, h)
            /\ erased' = erased \cup {h}
            /\ cancelledEarly' = IF pc[h] \in BeforeResponse
                                 THEN cancelledEarly \cup {h} ELSE cancelledEarly
            /\ denied' = denied \ {h}
       ELSE /\ denied' = IF h \in DOMAIN requests THEN denied \cup {h} ELSE denied
            /\ UNCHANGED <<requests, cells, erased, cancelledEarly>>
    /\ UNCHANGED <<lastHandle, pc, isJSON, canceledFlag, response, workerParams, papyrusCalls,
                   handed, resetPending, resetCancelled>>

\* OnMessage with requests.clear() left out
OnMessage_NoClear(type) ==
    /\ IF type = "kPostLoadGame"
       THEN /\ cells' = [c \in DOMAIN cells |->
                           IF \E h \in DOMAIN requests : requests[h].canceled = c
                           THEN TRUE ELSE cells[c]]
            /\ erased' = erased \cup DOMAIN requests
            /\ resetPending' = resetPending \cup {h \in Handles : pc[h] \in WorkerPending}
            /\ resetCancelled' = resetCancelled \cup
                                   {h \in DOMAIN requests : pc[h] \in Created}
            /\ denied' = {}
            /\ UNCHANGED requests
       ELSE UNCHANGED <<requests, cells, erased, resetPending, resetCancelled, denied>>
    /\ UNCHANGED <<lastHandle, pc, isJSON, canceledFlag, response, workerParams, papyrusCalls,
                   handed, cancelledEarly>>

\* OnMessage that also starts the handle counter again
OnMessage_ResetCounter(type) ==
    /\ IF type = "kPostLoadGame"
       THEN /\ cells' = [c \in DOMAIN cells |->
                           IF \E h \in DOMAIN requests : requests[h].canceled = c
                           THEN TRUE ELSE cells[c]]
            /\ requests' = <<>>
            /\ lastHandle' = 0
            /\ erased' = erased \cup DOMAIN requests
            /\ resetPending' = resetPending \cup {h \in Handles : pc[h] \in WorkerPending}
            /\ resetCancelled' = resetCancelled \cup
                                   {h \in DOMAIN requests : pc[h] \in Created}
            /\ denied' = {}
       ELSE UNCHANGED <<requests, lastHandle, cells, erased, resetPending,
                        resetCancelled, denied>>
    /\ UNCHANGED <<pc, isJSON, canceledFlag, response, workerParams, papyrusCalls,
                   handed, cancelledEarly>>

\* OnMessage(message): kPostLoadGame cancels and clears everything
OnMessage(type) ==
    /\ IF type = "kPostLoadGame"
       THEN /\ cells' = [c \in DOMAIN cells |->
                           IF \E h \in DOMAIN requests : requests[h].canceled = c
                           THEN TRUE ELSE cells[c]]
            /\ requests' = <<>>
            /\ erased' = erased \cup DOMAIN requests
            /\ resetPending' = resetPending \cup {h \in Handles : pc[h] \in WorkerPending}
            /\ resetCancelled' = resetCancelled \cup
                                   {h \in DOMAIN requests : pc[h] \in Created}
            /\ denied' = {}
       ELSE UNCHANGED <<requests, cells, erased, resetPending, resetCancelled, denied>>
    /\ UNCHANGED <<lastHandle, pc, isJSON, canceledFlag, response, workerParams, papyrusCalls,
                   handed, cancelledEarly>>

\* ValidateJSON(a_handle): the value returned
ValidateJSON(h) ==
    IF h \notin DOMAIN requests THEN FALSE ELSE requests[h].jsonValidated

\* T{}: the value-initialized T
ZeroOf(T) ==
    IF T = "string" THEN <<>>
    ELSE IF T = "int" THEN 0
    ELSE IF T = "float" THEN <<0, 1>>
    ELSE FALSE

\* GetJSONValue returning T{} in place of a_default when the lookup or the
\* conversion fails
GetJSONValue_ZeroOnFailure(T, h, path, default) ==
    IF h \notin DOMAIN requests THEN default
    ELSE LET ptr == JSONPointer(path)
             r   == Resolve(requests[h].json, ptr.tokens)
         IN  IF ~ptr.ok THEN ZeroOf(T)
             ELSE IF ~r.found THEN ZeroOf(T)
             ELSE IF ~GetAs(r.val, T).ok THEN ZeroOf(T)
             ELSE GetAs(r.val, T).val

\* GetJSONValue<T>(a_handle, a_path, a_default): the value returned
GetJSONValue(T, h, path, default) ==
    IF h \notin DOMAIN requests THEN default
    ELSE LET ptr == JSONPointer(path)
             r   == Resolve(requests[h].json, ptr.tokens)
         IN  IF ~ptr.ok THEN default
             ELSE IF ~r.found THEN default
             ELSE IF ~GetAs(r.val, T).ok THEN default
             ELSE GetAs(r.val, T).val

GetJSONString(h, path, default) == GetJSONValue("string", h, path, default)
GetJSONInt(h, path, default) == GetJSONValue("int", h, path, default)
GetJSONFloat(h, path, default) == GetJSONValue("float", h, path, default)
GetJSONBool(h, path, default) == GetJSONValue("bool", h, path, default)

(* --------------------------- accessor inputs --------------------------- *)

PathAB == <<"/", "a", "/", "b">>
PathA == <<"/", "a">>
PathS == <<"/", "s">>
PathT == <<"/", "t">>
PathF == <<"/", "f">>
PathL0 == <<"/", "l", "/", "0">>
PathL1 == <<"/", "l", "/", "1">>
PathL2 == <<"/", "l", "/", "2">>
PathL01 == <<"/", "l", "/", "0", "1">>
PathX == <<"/", "x">>
PathRoot == <<>>
PathNoSlash == <<"a", "/", "b">>
PathBadEscape == <<"/", "a", "~", "b">>

Paths == { PathAB, PathA, PathS, PathT, PathF, PathL0, PathL1, PathL2, PathL01,
           PathX, PathRoot, PathNoSlash, PathBadEscape }

\* the a_default a script passes, per type
DefaultOf(T) ==
    IF T = "string" THEN <<"x">>
    ELSE IF T = "int" THEN -1
    ELSE IF T = "float" THEN <<-1, 1>>
    ELSE FALSE

\* The accessors take the lock, read the registry and return: they change
\* nothing.  What a call returns is ValidateJSON(h), GetJSONValue(T, h, ...).
ValidateJSONCall(h) ==
    /\ h \in Handles
    /\ UNCHANGED data

GetJSONCall(T, h, path) ==
    /\ T \in ValueTypes /\ h \in Handles /\ path \in Paths
    /\ UNCHANGED data

(* --------------------------- specifications ---------------------------- *)

\* Any number of script threads, workers and posted tasks, freely interleaved;
\* the scripts leave the parameter lists at their defaults (empty).  A
\* critical section is one step: it locks requestMutex, runs and unlocks.
Next ==
    /\ \/ \E c \in Callers : LoadURL(c, <<>>, <<>>)
       \/ \E c \in Callers : LoadJSON(c, <<>>, <<>>)
       \/ \E h \in Handles : FetchFlag(h)
       \/ \E h \in Handles : SpawnWorker(h)
       \/ \E h \in Handles, r \in Responses : NetworkReturn(h, r)
       \/ \E h \in Handles : WorkerCheck(h)
       \/ \E h \in Handles : TaskCheck(h)
       \/ \E h \in Handles : TaskDeliver(h)
       \/ \E h \in Handles, who \in Scripts : Destroy(h, who)
       \/ \E type \in MessageTypes : OnMessage(type)
       \/ \E h \in Handles : ValidateJSONCall(h)
    /\ UNCHANGED requestMutex

Spec == Init /\ [][Next]_vars

\* no CreateRequest call, worker or posted task is under way
Quiet == \A h \in Handles : pc[h] \in {"idle", "done"}

\* One script that issues one request at a time, may destroy it, and reads
\* the results with the accessors; the responses include more kinds of
\* document.
NextJSON ==
    /\ \/ Quiet /\ LoadURL(CallerA, <<>>, <<>>)
       \/ Quiet /\ LoadJSON(CallerA, <<>>, <<>>)
       \/ \E h \in Handles : FetchFlag(h)
       \/ \E h \in Handles : SpawnWorker(h)
       \/ \E h \in Handles, r \in JSONResponses : NetworkReturn(h, r)
       \/ \E h \in Handles : WorkerCheck(h)
       \/ \E h \in Handles : TaskCheck(h)
       \/ \E h \in Handles : TaskDeliver(h)
       \/ \E h \in Handles : Destroy(h, CallerA.script)
       \/ \E h \in Handles : ValidateJSONCall(h)
       \/ \E T \in ValueTypes, h \in Handles, path \in Paths : GetJSONCall(T, h, path)
    /\ UNCHANGED requestMutex

SpecJSON == Init /\ [][NextJSON]_vars

\* the parameter lists a script passes: empty, one and two keys, and value
\* lists of the same and of other lengths
KeyLists == { <<>>, <<"k">>, <<"k", "q">>, <<"q", "k">> }

ValueLists == { <<>>, <<"v">>, <<"v", "w">> }

\* One script that issues one request at a time with parameter lists of its
\* choice and may destroy it.
NextParams ==
    /\ \/ Quiet /\ \E keys \in KeyLists, values \in ValueLists :
                      LoadURL(CallerA, keys, values)
       \/ Quiet /\ \E keys \in KeyLists, values \in ValueLists :
                      LoadJSON(CallerA, keys, values)
       \/ \E h \in Handles : FetchFlag(h)
       \/ \E h \in Handles : SpawnWorker(h)
       \/ \E h \in Handles, r \in Responses : NetworkReturn(h, r)
       \/ \E h \in Handles : WorkerCheck(h)
       \/ \E h \in Handles : TaskCheck(h)
       \/ \E h \in Handles : TaskDeliver(h)
       \/ \E h \in Handles : Destroy(h, CallerA.script)
    /\ UNCHANGED requestMutex

SpecParams == Init /\ [][NextParams]_vars

\* the responses of the scenarios about scheduling: a success and a failure
FewResponses ==
    { [status_code |-> StatusOK, text |-> BodyAB], [status_code |-> 0, text |-> <<>>] }

\* One script type issues LoadURL requests; scripts of both types destroy,
\* resets come at any time, everything interleaves as in Spec.
NextLive ==
    /\ \/ LoadURL(CallerA, <<>>, <<>>)
       \/ \E h \in Handles : FetchFlag(h)
       \/ \E h \in Handles : SpawnWorker(h)
       \/ \E h \in Handles, r \in FewResponses : NetworkReturn(h, r)
       \/ \E h \in Handles : WorkerCheck(h)
       \/ \E h \in Handles : TaskCheck(h)
       \/ \E h \in Handles : TaskDeliver(h)
       \/ \E h \in Handles, who \in Scripts : Destroy(h, who)
       \/ \E type \in MessageTypes : OnMessage(type)
    /\ UNCHANGED requestMutex

\* the scheduling the program relies on: a thread that can take its next
\* step takes it (the script thread inside CreateRequest, the worker),
\* cpr::Get returns (with a response or after the timeout), and the host
\* runs every task it was handed
Fairness ==
    \A h \in Handles :
        /\ WF_vars(FetchFlag(h) /\ UNCHANGED requestMutex)
        /\ WF_vars(SpawnWorker(h) /\ UNCHANGED requestMutex)
        /\ WF_vars((\E r \in FewResponses : NetworkReturn(h, r)) /\ UNCHANGED requestMutex)
        /\ WF_vars(WorkerCheck(h) /\ UNCHANGED requestMutex)
        /\ WF_vars(TaskCheck(h) /\ UNCHANGED requestMutex)
        /\ WF_vars(TaskDeliver(h) /\ UNCHANGED requestMutex)

FairSpec == Init /\ [][NextLive]_vars /\ Fairness

\* the critical sections of the program: CreateHandle (lines 40-46, here of
\* LoadURL calls), the block at lines 55-58, the rest of the posted task
\* (lines 73-91), Destroy, the reset in OnMessage and the accessors
Sections ==
    { Section("CreateHandle", 0, c, FALSE) : c \in Callers }
    \cup { Section("FetchFlag", h, NoCaller, FALSE) : h \in Handles }
    \cup { Section("TaskDeliver", h, NoCaller, FALSE) : h \in Handles }
    \cup { Section("Destroy", h, c, FALSE) : h \in Handles, c \in Callers }
    \cup { Section("OnMessage", 0, NoCaller, FALSE) }
    \cup { Section("ValidateJSON", h, NoCaller, FALSE) : h \in Handles }

\* a thread has come to the lock_guard of section s
Ready(s) ==
    CASE s.op = "CreateHandle" -> lastHandle < MaxHandles
      [] s.op = "FetchFlag" -> pc[s.h] = "allocated"
      [] s.op = "TaskDeliver" -> pc[s.h] = "locking"
      [] OTHER -> TRUE

\* std::lock_guard<std::mutex> lock(requestMutex): the constructor returns
\* when the mutex is free, and the thread holds it
Lock(s) ==
    /\ requestMutex = Free
    /\ Ready(s)
    /\ requestMutex' = s
    /\ UNCHANGED data

\* what section s does while it holds the mutex
Body(s) ==
    CASE s.op = "CreateHandle" -> CreateRequest(s.c, <<>>, <<>>, s.json)
      [] s.op = "FetchFlag" -> FetchFlag(s.h)
      [] s.op = "TaskDeliver" -> TaskDeliver(s.h)
      [] s.op = "Destroy" -> Destroy(s.h, s.c.script)
      [] s.op = "OnMessage" -> OnMessage("kPostLoadGame")
      [] s.op = "ValidateJSON" -> ValidateJSONCall(s.h)

\* the end of a section whose lock_guard stays alive after the block at
\* lines 55-58: the mutex is not given back there
Unlock_KeptAfterFetch ==
    /\ requestMutex # Free
    /\ Body(requestMutex)
    /\ requestMutex' = IF requestMutex.op = "FetchFlag" THEN requestMutex ELSE Free

\* the section runs to the end of its block and the lock_guard unlocks
Unlock ==
    /\ requestMutex # Free
    /\ Body(requestMutex)
    /\ requestMutex' = Free

\* The threads with the mutex made explicit: a thread locks, and in a later
\* step runs its section and unlocks; the worker steps take no lock.
NextLock ==
    \/ \E s \in Sections : Lock(s)
    \/ Unlock
    \/ UNCHANGED requestMutex /\ \E h \in Handles : SpawnWorker(h)
    \/ UNCHANGED requestMutex /\ \E h \in Handles, r \in FewResponses : NetworkReturn(h, r)
    \/ UNCHANGED requestMutex /\ \E h \in Handles : WorkerCheck(h)
    \/ UNCHANGED requestMutex /\ \E h \in Handles : TaskCheck(h)

\* a thread inside a critical section keeps running
SpecLock == Init /\ [][NextLock]_vars /\ WF_vars(Unlock)

(* ------------------------------- claims -------------------------------- *)

\* the CallPapyrus invocations for handle h, and those that reached a script
CallsFor(h) ==
    { i \in DOMAIN papyrusCalls : papyrusCalls[i].handle = h }

DispatchedFor(h) ==
    { i \in CallsFor(h) : papyrusCalls[i].dispatched }

\* C1: a handle its owner destroyed before the worker's network call had
\* returned never gets an OnRequestSuccess or OnRequestFail notification,
\* in any later state and whatever the response is.
C1_NoNotificationAfterEarlyDestroy ==
    \A h \in cancelledEarly : DispatchedFor(h) = {}

\* C1 witness: a handle destroyed early whose worker has run to its end.
C1_Witness ==
    \E h \in cancelledEarly : pc[h] = "done"

\* C2: once a reset has run, every step of a worker or delivery task that
\* was pending at the reset leaves requests (with json and jsonValidated),
\* lastHandle and the notifications as they are.
C2_PendingWorkerAfterResetDoesNothing ==
    [][\A h \in resetPending :
          pc'[h] # pc[h] =>
             /\ requests' = requests
             /\ lastHandle' = lastHandle
             /\ papyrusCalls' = papyrusCalls]_vars

\* C2 witness: a worker that was pending at a reset has run to its end,
\* after getting a response the delivery would have reported.
C2_Witness ==
    \E h \in resetPending : pc[h] = "done" /\ h \in resetCancelled

\* C3: when the requests are created (each CreateRequest has fetched its
\* flag) and a reset cancels them, the registry is empty right after the
\* reset, none of them is a key of the registry afterwards, and no
\* notification is invoked for any of them after the reset.
C3_ResetCancelsAllCreated ==
    [][/\ resetCancelled' # resetCancelled => requests' = <<>>
       /\ \A h \in resetCancelled' : h \notin DOMAIN requests'
       /\ \A h \in resetCancelled : CallsFor(h)' = CallsFor(h)]_vars

\* C3 witness: every request was created and cancelled by a reset while its
\* worker was pending, all workers have ended, nothing was notified.
C3_Witness ==
    /\ resetCancelled = Handles
    /\ resetPending = Handles
    /\ \A h \in Handles : pc[h] = "done"
    /\ requests = <<>>
    /\ papyrusCalls = <<>>

StrictlyIncreasing(seq) ==
    \A i, j \in DOMAIN seq : i < j => seq[i] < seq[j]

\* C4: the handles CreateHandle returns are positive and strictly
\* increasing (so they never repeat), and no step lowers lastHandle,
\* whatever Destroy calls and resets come in between.
C4_HandlesStrictlyIncreasing ==
    [][/\ lastHandle' >= lastHandle
       /\ StrictlyIncreasing(handed')
       /\ \A i \in DOMAIN handed' : handed'[i] > 0
       /\ handed' # handed => handed'[Len(handed')] = lastHandle']_vars

\* C4 witness: the last handle was allocated after a reset had erased an
\* earlier one (it is in the registry and its call has not fetched the flag).
C4_Witness ==
    /\ Len(handed) = MaxHandles
    /\ pc[lastHandle] = "allocated"
    /\ lastHandle \in DOMAIN requests
    /\ \E h \in resetCancelled : h < lastHandle

\* C5: a handle that was erased from the registry is never a key of the
\* registry again, so no later lookup finds an entry for it.
\* (Violated: requests[handle] at line 57 inserts the handle again when a
\* Destroy or a reset erased it after CreateHandle returned.)
C5_ErasedNeverAKeyAgain ==
    \A h \in erased : h \notin DOMAIN requests

\* C6: Destroy from a script type other than the stored scriptName changes
\* neither the registry nor any cancel flag nor any call's position, and
\* the handle stays live: when its delivery task then runs with the handle
\* still in the registry, it invokes the notification for it.
C6_DestroyByNonOwnerIsNoOp ==
    [][\A h \in Handles :
          /\ h \in denied' /\ h \notin denied =>
                /\ h \in DOMAIN requests
                /\ requests' = requests
                /\ cells' = cells
                /\ ~cells'[requests'[h].canceled]
                /\ pc' = pc
                /\ papyrusCalls' = papyrusCalls
          /\ h \in denied /\ pc[h] = "locking" /\ pc'[h] = "done" =>
                /\ Len(papyrusCalls') = Len(papyrusCalls) + 1
                /\ papyrusCalls'[Len(papyrusCalls')].handle = h]_vars

\* C6 witness: a handle a non-owner tried to destroy is still in the
\* registry and its owner has been notified.
C6_Witness ==
    \E h \in denied : h \in DOMAIN requests /\ DispatchedFor(h) # {}

\* C7: a delivery task that finds its handle in the registry invokes
\* exactly one notification, on the stored owner: OnRequestSuccess(handle,
\* body) for status 200, OnRequestFail(handle, status) with the literal
\* status otherwise (0 for a transport error), and after a non-200 delivery
\* ValidateJSON(handle) is false.
C7_OneNotificationByStatus ==
    [][\A h \in Handles :
          (pc[h] = "locking" /\ pc'[h] = "done" /\ h \in DOMAIN requests) =>
             LET n == papyrusCalls'[Len(papyrusCalls')]
                 r == response[h]
             IN  /\ Len(papyrusCalls') = Len(papyrusCalls) + 1
                 /\ SubSeq(papyrusCalls', 1, Len(papyrusCalls)) = papyrusCalls
                 /\ n.handle = h
                 /\ n.vmhandle = requests[h].vmhandle
                 /\ n.scriptName = requests[h].scriptName
                 /\ IF r.status_code = 200
                    THEN n.methodName = "OnRequestSuccess" /\ n.arg = r.text
                    ELSE /\ n.methodName = "OnRequestFail"
                         /\ n.arg = r.status_code
                         /\ ~ValidateJSON(h)']_vars

\* C7 witness: OnRequestFail(h, 404) was dispatched for a LoadJSON request
\* and ValidateJSON(h) is false.
C7_Witness ==
    \E i \in DOMAIN papyrusCalls :
        /\ papyrusCalls[i].methodName = "OnRequestFail"
        /\ papyrusCalls[i].arg = 404
        /\ papyrusCalls[i].dispatched
        /\ isJSON[papyrusCalls[i].handle]
        /\ papyrusCalls[i].handle \in DOMAIN requests
        /\ ~ValidateJSON(papyrusCalls[i].handle)

\* C8 as claimed: once the delivery task of h has completed (it invoked the
\* notification), h is no longer in the registry.
C8_DeliveredIsRemoved ==
    \A h \in Handles :
        (pc[h] = "done" /\ CallsFor(h) # {}) => h \notin DOMAIN requests

\* C8 amended: a Request leaves the registry only by a Destroy from its
\* owner's script type or by a kPostLoadGame reset; the delivery task does
\* not remove it: when it has notified, the handle is still in the registry.
C8_RemovedOnlyByDestroyOrReset ==
    [][\A h \in DOMAIN requests :
          /\ h \notin DOMAIN requests' =>
                \/ Destroy(h, requests[h].scriptName)
                \/ OnMessage("kPostLoadGame")
          /\ (pc[h] = "locking" /\ pc'[h] = "done") =>
                h \in DOMAIN requests' /\ CallsFor(h)' # {}]_vars

\* C8 witness: a delivered request stayed in the registry until its owner
\* destroyed it.
C8_Witness ==
    \E h \in erased :
        /\ DispatchedFor(h) # {}
        /\ h \notin DOMAIN requests
        /\ h \notin resetCancelled

\* C9: ValidateJSON(h) is true exactly when h is in the registry with
\* jsonValidated set, and then h was created by LoadJSON and its delivery
\* ran with status 200 and a body that parses as JSON (the success
\* notification carries that body); it is false for a LoadURL handle, for a
\* handle not yet delivered and for an absent handle.
C9_ValidateJSON ==
    \A h \in Handles :
        /\ ValidateJSON(h) <=> (h \in DOMAIN requests /\ requests[h].jsonValidated)
        /\ ValidateJSON(h) =>
              /\ isJSON[h]
              /\ pc[h] = "done"
              /\ \E i \in CallsFor(h) :
                    /\ papyrusCalls[i].methodName = "OnRequestSuccess"
                    /\ JSONParse(papyrusCalls[i].arg).ok
                    /\ requests[h].json = JSONParse(papyrusCalls[i].arg).val
        /\ (~isJSON[h] \/ pc[h] # "done" \/ h \notin DOMAIN requests) => ~ValidateJSON(h)

\* C9 witness: ValidateJSON is true for a delivered LoadJSON request.
C9_Witness ==
    \E h \in Handles : ValidateJSON(h) /\ DispatchedFor(h) # {}

\* the success notification of h carried this body and h, created by
\* LoadJSON, is in the registry: the document decoded from body is stored
Decoded(h, body) ==
    /\ h \in DOMAIN requests
    /\ isJSON[h]
    /\ \E i \in CallsFor(h) :
          /\ papyrusCalls[i].methodName = "OnRequestSuccess"
          /\ papyrusCalls[i].arg = body

\* h is in the registry and no decoded document is stored for it: not
\* delivered, delivered with a status other than 200, created by LoadURL,
\* or delivered with the body that is not JSON
NoDocument(h) ==
    /\ h \in DOMAIN requests
    /\ ~Decoded(h, BodyAB)
    /\ ~Decoded(h, BodyMixed)

\* what the accessors are to return for the document {"a":{"b":42}}
ExpectedAB(T, path) ==
    IF path = PathAB /\ T = "int" THEN 42
    ELSE IF path = PathAB /\ T = "float" THEN <<42, 1>>
    ELSE DefaultOf(T)

\* and for {"s":"hi","t":true,"f":1.5,"l":[7,-8]}
ExpectedMixed(T, path) ==
    IF T = "string" THEN
        IF path = PathS THEN <<"h", "i">> ELSE DefaultOf(T)
    ELSE IF T = "bool" THEN
        IF path = PathT THEN TRUE ELSE DefaultOf(T)
    ELSE IF T = "int" THEN
        IF path = PathT THEN 1
        ELSE IF path = PathF THEN 1
        ELSE IF path = PathL0 THEN 7
        ELSE IF path = PathL1 THEN -8
        ELSE DefaultOf(T)
    ELSE
        IF path = PathT THEN <<1, 1>>
        ELSE IF path = PathF THEN <<15, 10>>
        ELSE IF path = PathL0 THEN <<7, 1>>
        ELSE IF path = PathL1 THEN <<-8, 1>>
        ELSE DefaultOf(T)

\* C10: GetJSONString/Int/Float/Bool(h, path, default) return default when h
\* is absent, when no decoded document is stored for h, when the path does
\* not resolve (or is no JSON pointer) and when the value found does not
\* convert to the type asked for; otherwise the converted value.  For the
\* delivered 200 body {"a":{"b":42}} of a LoadJSON request,
\* GetJSONInt(h, "/a/b", -1) is 42 and GetJSONString(h, "/a/b", "x") is "x".
C10_GetJSONValue ==
    \A h \in Handles :
        /\ Decoded(h, BodyAB) =>
              /\ GetJSONInt(h, PathAB, -1) = 42
              /\ GetJSONString(h, PathAB, <<"x">>) = <<"x">>
        /\ \A T \in ValueTypes, path \in Paths :
              LET got == GetJSONValue(T, h, path, DefaultOf(T))
              IN  /\ h \notin DOMAIN requests => got = DefaultOf(T)
                  /\ NoDocument(h) => got = DefaultOf(T)
                  /\ Decoded(h, BodyAB) => got = ExpectedAB(T, path)
                  /\ Decoded(h, BodyMixed) => got = ExpectedMixed(T, path)

\* C10 witness: one handle holds the decoded {"a":{"b":42}}, another was
\* delivered and then destroyed.
C10_Witness ==
    \E h, g \in Handles :
        /\ Decoded(h, BodyAB)
        /\ ValidateJSON(h)
        /\ g \in erased /\ g \notin DOMAIN requests /\ CallsFor(g) # {}

\* the delivery of h has invoked OnRequestSuccess with a body that is not
\* JSON, h was created by LoadJSON and is in the registry
UndecodedSuccess(h) ==
    /\ h \in DOMAIN requests
    /\ isJSON[h]
    /\ \E i \in CallsFor(h) :
          /\ papyrusCalls[i].methodName = "OnRequestSuccess"
          /\ ~JSONParse(papyrusCalls[i].arg).ok

\* C11: the delivery of a LoadJSON request with status 200 and a body that
\* is not valid JSON invokes OnRequestSuccess(handle, body) and leaves the
\* Request, with json and jsonValidated, as it was; a handle so notified
\* has no OnRequestFail, jsonValidated is false for it, ValidateJSON(handle)
\* is false and every GetJSON* call on the handle returns its default.
C11_MalformedBodyIsSuccess ==
    /\ [][\A h \in Handles :
             ( /\ pc[h] = "locking" /\ pc'[h] = "done"
               /\ h \in DOMAIN requests
               /\ isJSON[h]
               /\ response[h].status_code = 200
               /\ ~JSONParse(response[h].text).ok ) =>
                LET n == papyrusCalls'[Len(papyrusCalls')]
                IN  /\ Len(papyrusCalls') = Len(papyrusCalls) + 1
                    /\ n.methodName = "OnRequestSuccess"
                    /\ n.handle = h
                    /\ n.arg = response[h].text
                    /\ requests' = requests]_vars
    /\ [](\A h \in Handles :
             UndecodedSuccess(h) =>
                /\ \A i \in CallsFor(h) : papyrusCalls[i].methodName # "OnRequestFail"
                /\ ~requests[h].jsonValidated
                /\ ~ValidateJSON(h)
                /\ \A T \in ValueTypes, path \in Paths :
                      GetJSONValue(T, h, path, DefaultOf(T)) = DefaultOf(T))

\* C11 witness: the owner of a LoadJSON request was notified of success with
\* the body {"a": and ValidateJSON is false for the handle.
C11_Witness ==
    \E h \in Handles :
        /\ UndecodedSuccess(h)
        /\ pc[h] = "done"
        /\ \E i \in DispatchedFor(h) : papyrusCalls[i].arg = BodyCut
        /\ ~ValidateJSON(h)

\* C12: the parameters the worker passes to cpr::Get are the pairs
\* (a_paramKeys[i], a_paramValues[i]) in order when the key list is not
\* empty and as long as the value list, and none otherwise; whatever the
\* lengths are, the call had its handle returned and the worker, once
\* spawned, is in its network call.
C12_QueryParameters ==
    [][\A h \in Handles :
          (pc[h] = "fetched" /\ pc'[h] # pc[h]) =>
             LET keys   == a_paramKeys[h]
                 values == a_paramValues[h]
             IN  /\ pc'[h] = "net"
                 /\ \E i \in DOMAIN handed : handed[i] = h
                 /\ IF keys # <<>> /\ Len(keys) = Len(values)
                    THEN /\ Len(params'[h]) = Len(keys)
                         /\ \A i \in 1..Len(keys) :
                               /\ params'[h][i].key = keys[i]
                               /\ params'[h][i].value = values[i]
                    ELSE params'[h] = <<>>]_vars

\* C12 witness: a request with two keys and one value is in its network
\* call with no parameters, after one with two keys and two values was
\* delivered.
C12_Witness ==
    \E h, g \in Handles :
        /\ pc[h] = "net"
        /\ Len(a_paramKeys[h]) = 2 /\ Len(a_paramValues[h]) = 1
        /\ params[h] = <<>>
        /\ \E i \in DOMAIN handed : handed[i] = h
        /\ g # h /\ pc[g] = "done" /\ DispatchedFor(g) # {}

\* C13: Destroy(h) on a handle that is not in the registry (never allocated,
\* already destroyed, removed by a reset) changes nothing: no step that
\* changes the registry, a cancel flag, lastHandle, the notifications or
\* anything else is such a Destroy.  A Destroy by the owner leaves the
\* handle out of the registry, so a second one right after it is of that
\* kind and the state after two is the state after one.
C13_DestroyIdempotent ==
    [][\A h \in Handles, who \in Scripts :
          /\ (h \notin DOMAIN requests /\ Destroy(h, who)) => UNCHANGED vars
          /\ (h \in DOMAIN requests /\ who = requests[h].scriptName /\ Destroy(h, who)) =>
                h \notin DOMAIN requests']_vars

\* C13 witness: one handle was destroyed by its owner while its worker was
\* pending, one was removed by a reset, both are absent (a Destroy of either
\* is a Destroy of an absent handle) and nothing was notified.
C13_Witness ==
    \E h, g \in Handles :
        /\ h \in erased /\ h \notin resetCancelled /\ h \notin DOMAIN requests
        /\ pc[h] \in WorkerPending
        /\ g \in resetCancelled /\ g \notin DOMAIN requests
        /\ papyrusCalls = <<>>

\* the flag the worker and the task of h hold is set
Cancelled(h) ==
    canceledFlag[h] # 0 /\ cells[canceledFlag[h]]

\* C14: when h is cancelled (by its owner's Destroy or by a reset) while its
\* worker is past the first flag check and its delivery task has not taken
\* the lock (before or after the task's own flag check), the flag the task
\* holds is set and h is out of the registry, and the step the task then
\* takes ends it: it invokes no notification and leaves every Request as it
\* is.
C14_CancelledBeforeDeliveryLock ==
    [][\A h \in Handles :
          /\ ( /\ pc[h] \in {"posted", "locking"}
               /\ \/ h \in DOMAIN requests /\ h \notin DOMAIN requests'
                  \/ ~Cancelled(h) /\ Cancelled(h)' ) =>
                /\ Cancelled(h)'
                /\ h \notin DOMAIN requests'
                /\ pc'[h] = pc[h]
                /\ papyrusCalls' = papyrusCalls
          /\ ( /\ pc[h] \in {"posted", "locking"}
               /\ Cancelled(h)
               /\ pc'[h] # pc[h] ) =>
                /\ pc'[h] = "done"
                /\ papyrusCalls' = papyrusCalls
                /\ requests' = requests]_vars

\* C14 witness: the task of one handle is past its flag check and about to
\* take the lock, and its owner has destroyed the handle since; the task of
\* another has ended without a notification after a reset cancelled it.
C14_Witness ==
    \E h, g \in Handles :
        /\ pc[h] = "locking" /\ Cancelled(h)
        /\ h \in erased /\ h \notin resetCancelled /\ h \notin DOMAIN requests
        /\ g \in resetCancelled /\ g \in resetPending /\ pc[g] = "done"
        /\ papyrusCalls = <<>>

\* C15: the flag the worker of h has captured is the cell CreateHandle made
\* for h, and once an authorized Destroy(h) or a reset has erased h after
\* CreateHandle returned it, the flag the worker of h reads is set.
\* (Violated: when the Destroy or the reset runs between CreateHandle and
\* line 57, requests[handle] inserts a new Request and the worker captures
\* the new Request's flag, which is false.)
C15_WorkerHoldsAllocatedFlag ==
    \A h \in Handles :
        canceledFlag[h] # 0 =>
            /\ canceledFlag[h] = AllocCell(h)
            /\ h \in erased => cells[canceledFlag[h]]

\* C16: every cancel flag starts false; a step changes a flag only from
\* false to true, and only a Destroy by the owner of the Request the flag
\* belongs to or a kPostLoadGame reset does that; a flag that is true stays
\* true for good.
C16_FlagsMonotonic ==
    [][/\ \A c \in DOMAIN cells' \ DOMAIN cells : ~cells'[c]
       /\ \A c \in DOMAIN cells :
             /\ c \in DOMAIN cells'
             /\ cells[c] => cells'[c]
             /\ (~cells[c] /\ cells'[c]) =>
                   \E h \in DOMAIN requests :
                       /\ requests[h].canceled = c
                       /\ \/ Destroy(h, requests[h].scriptName)
                          \/ OnMessage("kPostLoadGame")]_vars

\* C16 witness: a flag set by a Destroy and a flag set by a reset are true,
\* the flag of a Request inserted after the Destroy is still false.
C16_Witness ==
    \E h, g \in Handles :
        /\ h \in erased /\ h \notin resetCancelled /\ cells[AllocCell(h)]
        /\ FetchCell(h) \in DOMAIN cells /\ ~cells[FetchCell(h)]
        /\ g \in resetCancelled /\ cells[AllocCell(g)]
        /\ pc[h] = "done" /\ pc[g] = "done"

\* the step is one of the worker thread of h: from the start of its network
\* call to the end of the worker lambda
WorkerStep(h) ==
    pc[h] \in {"net", "responded"} /\ pc'[h] # pc[h]

\* C17: no critical section lasts into a network call: while the worker of
\* h is in cpr::Get or before its flag check, the mutex is not held by the
\* section of CreateRequest or by the delivery task of h; a step of the
\* worker thread leaves the registry, the mutex and the notifications as
\* they are; whoever holds the mutex can run to its unlock at once, whatever
\* the workers are doing, so the mutex is free again after finitely many
\* steps and a thread waiting for it can take it.
C17_LockNotHeldAcrossNetwork ==
    /\ [](\A h \in Handles :
             pc[h] \in {"net", "responded"} =>
                ~(requestMutex.h = h /\ requestMutex.op \in {"FetchFlag", "TaskDeliver"}))
    /\ [](requestMutex # Free => ENABLED Unlock)
    /\ [][\A h \in Handles :
             WorkerStep(h) =>
                /\ requests' = requests
                /\ lastHandle' = lastHandle
                /\ requestMutex' = requestMutex
                /\ papyrusCalls' = papyrusCalls]_vars
    /\ (requestMutex # Free ~> requestMutex = Free)

\* C17 witness: Destroy holds the mutex while the worker of one request is
\* in its network call and the delivery task of another waits for the mutex.
C17_Witness ==
    \E h, g \in Handles :
        /\ requestMutex.op = "Destroy"
        /\ pc[h] = "net"
        /\ pc[g] = "locking"

\* C18: a request that was created (CreateHandle has returned its handle)
\* and that no authorized Destroy and no reset ever erases is eventually
\* notified: an OnRequestSuccess or OnRequestFail for its handle is
\* dispatched to its script, given that the threads keep running, the
\* network call returns and the host runs the posted task.
C18_EventuallyNotified ==
    \A h \in Handles :
        (pc[h] # "idle") ~> (DispatchedFor(h) # {} \/ h \in erased)

\* C18 witness: a request that was never erased, and that a script of
\* another type tried to destroy, was notified of the failure of its call
\* (status 0); another request was erased and not notified.
C18_Witness ==
    \E h, g \in Handles :
        /\ h \notin erased /\ h \in denied /\ pc[h] = "done"
        /\ \E i \in DispatchedFor(h) :
              papyrusCalls[i].methodName = "OnRequestFail" /\ papyrusCalls[i].arg = 0
        /\ g \in erased /\ CallsFor(g) = {} /\ pc[g] = "done"

\* C19: over any execution at most one notification is invoked for a
\* handle: never OnRequestSuccess and OnRequestFail both, never the same one
\* twice; each handle is handed out once and its one worker posts at most
\* one task.
C19_AtMostOneNotification ==
    /\ \A h \in Handles : Cardinality(CallsFor(h)) <= 1
    /\ \A i, j \in DOMAIN handed : handed[i] = handed[j] => i = j

\* C19 witness: every handle has been handed out and has run to its end,
\* one was notified of success and one of failure, each once.
C19_Witness ==
    /\ Len(handed) = MaxHandles
    /\ \A h \in Handles : pc[h] = "done" /\ Cardinality(DispatchedFor(h)) = 1
    /\ \E i, j \in DOMAIN papyrusCalls :
          /\ papyrusCalls[i].methodName = "OnRequestSuccess"
          /\ papyrusCalls[j].methodName = "OnRequestFail"

\* the flags made for the Requests of handle h
FlagsOf(h) == {AllocCell(h), FetchCell(h)} \cap DOMAIN cells

====
